---- MODULE Spec2Model ----
(***************************************************************************)
(* The todo agent: the plan/action/output loop of TodoAgent               *)
(* (processUserInput), the tool registry (executeFunction, localTools),    *)
(* the task-store operations and the decoding of the model's response      *)
(* lines, as a state machine.                                              *)
(*                                                                         *)
(* Text is a sequence of pieces.  A piece is either a stretch of plain     *)
(* text T(s) (a Markdown fence, the "Agent:" label, a blank, a line feed,  *)
(* other characters) or the source text J(v) of a JSON value v.  JSON      *)
(* values are tagged records: undefined, null, numbers, strings (whose     *)
(* content is text again), arrays of integers and objects.                 *)
(***************************************************************************)
EXTENDS Integers, Sequences, FiniteSets, TLC

VARIABLES
    conversationHistory, \* TodoAgent.conversationHistory
    store,               \* rows of todosTable
    nextId,              \* the identity sequence of todosTable.id
    pc,                  \* where the session stands
    userInput,           \* argument of the running processUserInput
    i,                   \* loop counter of processUserInput
    lastAIMessage,       \* message sent with the next model call
    rawText,             \* text of the response being processed
    jsonStrings,         \* its non-empty trimmed lines
    idx,                 \* index of the line the for-of loop is at
    aiResponse,          \* what that line was decoded to
    result,              \* value returned by processUserInput
    modelCalls,          \* generateContent calls made in this turn
    failedCalls,         \* generateContent calls of this turn that failed
    toolLog,             \* executeFunction calls made in this turn
    lastExec,            \* the latest executeFunction call and its outcome
    turns,               \* processUserInput calls started in this session
    pLine,               \* a response line handed to the decoder
    pDecoded,            \* what the decoder made of pLine
    chat,                \* messages sent to the chat of a turn (index.js)
    functionCall         \* function call found in its first response

vars == <<conversationHistory, store, nextId, pc, userInput, i, lastAIMessage,
          rawText, jsonStrings, idx, aiResponse, result, modelCalls, failedCalls, toolLog,
          lastExec, turns, pLine, pDecoded, chat, functionCall>>

loopVars == <<conversationHistory, pc, userInput, i, lastAIMessage, rawText,
              jsonStrings, idx, aiResponse, result, modelCalls, failedCalls, toolLog, turns>>

dbVars == <<store, nextId>>

parseVars == <<pLine, pDecoded>>

callVars == <<chat, functionCall>>

(***************************************************************************)
(* Bounds of the model.                                                    *)
(***************************************************************************)
\* lines in one model response
MaxLines == 2
\* tool calls the model asks for in one session
MaxToolCalls == 1
\* a new user turn starts only while the history is shorter than this
MaxHistory == 2
\* pieces in a line handed to the decoder on its own
MaxPieces == 3

(***************************************************************************)
(* Text and JSON values.                                                   *)
(***************************************************************************)
T(s) == [k |-> "t", s |-> s]

J(v) == [k |-> "j", v |-> v]

JUndef == [k |-> "undef"]

JNull == [k |-> "null"]

JNum(n) == [k |-> "num", n |-> n]

JStr(s) == [k |-> "str", s |-> s]

JArr(a) == [k |-> "arr", a |-> a]

JRows(r) == [k |-> "rows", rows |-> r]

JObj(f) == [k |-> "obj", f |-> f]

Str(s) == JStr(<<T(s)>>)

EmptyObj == JObj(<<>>)

JTrue == [k |-> "bool", b |-> TRUE]

\* v.name in JavaScript, for a v that is neither null nor undefined
Get(v, name) ==
    IF v.k = "obj" /\ name \in DOMAIN v.f THEN v.f[name] ELSE JUndef

\* reading a property of v throws a TypeError
PropThrows(v) == v.k \in {"null", "undef"}

IsString(v) == v.k = "str"

Last(s) == s[Len(s)]

Front(s) == SubSeq(s, 1, Len(s) - 1)

IsBlank(p) == p.k = "t" /\ p.s \in {" ", "LF"}

(***************************************************************************)
(* The response text split at line feeds, each line trimmed, empty lines   *)
(* dropped.                                                                *)
(***************************************************************************)
RECURSIVE SplitFrom(_, _, _)
SplitFrom(text, sep, cur) ==
    IF text = <<>> THEN <<cur>>
    ELSE IF Head(text) = T(sep)
         THEN <<cur>> \o SplitFrom(Tail(text), sep, <<>>)
         ELSE SplitFrom(Tail(text), sep, Append(cur, Head(text)))

\* text.split(sep)
Split(text, sep) == SplitFrom(text, sep, <<>>)

RECURSIVE TrimLeft(_)
TrimLeft(s) ==
    IF s # <<>> /\ IsBlank(Head(s)) THEN TrimLeft(Tail(s)) ELSE s

RECURSIVE TrimRight(_)
TrimRight(s) ==
    IF s # <<>> /\ IsBlank(Last(s)) THEN TrimRight(Front(s)) ELSE s

Trim(s) == TrimRight(TrimLeft(s))

NonEmptyLines(text) ==
    LET lines == Split(text, "LF")
        trimmed == [n \in 1..Len(lines) |-> Trim(lines[n])]
    IN SelectSeq(trimmed, LAMBDA s : s # <<>>)

(***************************************************************************)
(* Cleaning of one line: every json fence and every bare fence is removed, *)
(* then a leading Agent label (any case) with the blanks after it, then    *)
(* the line is trimmed; JSON.parse of the cleaned line with its fallback.  *)
(***************************************************************************)
RECURSIVE RemoveAll(_, _)
RECURSIVE RemoveInJson(_, _)
RemoveAll(s, p) ==
    IF s = <<>> THEN <<>>
    ELSE LET h == Head(s)
             r == RemoveAll(Tail(s), p)
         IN IF h.k = "t"
            THEN IF h.s = p THEN r ELSE <<h>> \o r
            ELSE <<J(RemoveInJson(h.v, p))>> \o r

RemoveInJson(v, p) ==
    CASE v.k = "str" -> JStr(RemoveAll(v.s, p))
      [] v.k = "obj" -> JObj([n \in DOMAIN v.f |-> RemoveInJson(v.f[n], p)])
      [] OTHER -> v

StripAgent(s) ==
    IF s # <<>> /\ Head(s).k = "t" /\ Head(s).s \in {"Agent:", "agent:"}
    THEN TrimLeft(Tail(s))
    ELSE s

\* the pieces "FENCEJSON" and "FENCE" are the json fence and the bare fence
Clean(s) == Trim(StripAgent(RemoveAll(RemoveAll(s, "FENCEJSON"), "FENCE")))

\* JSON.parse(clean) succeeds: clean is the source text of one JSON value
Parses(clean) == Len(clean) = 1 /\ clean[1].k = "j"

FallbackKeepsRawLine(s) ==
    LET clean == Clean(s)
    IN IF Parses(clean) THEN clean[1].v
       ELSE JObj([type |-> Str("output"), output |-> JStr(s)])

Decode(s) ==
    LET clean == Clean(s)
    IN IF Parses(clean) THEN clean[1].v
       ELSE JObj([type |-> Str("output"), output |-> JStr(clean)])

(***************************************************************************)
(* The task store operations.  An operation gets its argument, the rows    *)
(* and the identity counter, and whether the database answers (dbOk); it   *)
(* yields [thrown, v, store, nextId]: v is the value returned, or the      *)
(* message of the error thrown.                                            *)
(***************************************************************************)
Ret(v, s, n) == [thrown |-> FALSE, v |-> v, store |-> s, nextId |-> n]

Raise(m, s, n) == [thrown |-> TRUE, v |-> m, store |-> s, nextId |-> n]

DbError == Str("connection refused")

TypeError == Str("TypeError")

RowObj(r) == JObj([id |-> JNum(r.id), todo |-> r.todo])

RowsOf(s) == JRows({RowObj(r) : r \in s})

getAllTodos(arg, s, n, dbOk) ==
    IF dbOk THEN Ret(RowsOf(s), s, n) ELSE Raise(DbError, s, n)

createTodo(todo, s, n, dbOk) ==
    IF dbOk
    THEN LET newTodo == [id |-> n, todo |-> todo]
         IN Ret(RowObj(newTodo), s \cup {newTodo}, n + 1)
    ELSE Raise(DbError, s, n)

deleteTodo(arg, s, n, dbOk) ==
    LET id == Get(arg, "id")
    IN IF dbOk
       THEN Ret(JObj([success |-> JTrue,
                      message |-> JStr(<<T("Todo "), J(id),
                                         T(" deleted successfully")>>)]),
                {r \in s : JNum(r.id) # id}, n)
       ELSE Raise(DbError, s, n)

RECURSIVE JoinIds(_)
JoinIds(a) ==
    IF a = <<>> THEN <<>>
    ELSE IF Len(a) = 1 THEN <<J(JNum(a[1]))>>
    ELSE <<J(JNum(a[1])), T(", ")>> \o JoinIds(Tail(a))

\* the message lists only the ids that were found and deleted
deleteManyTodosReportsFound(arg, s, n, dbOk) ==
    LET ids == Get(arg, "ids")
    IN IF ids.k # "arr" \/ Len(ids.a) = 0
       THEN Raise(Str("Please provide a non-empty array of todo IDs to delete."),
                  s, n)
       ELSE IF dbOk
       THEN Ret(JObj([success |-> JTrue,
                      message |-> JStr(<<T("Deleted todos with ids: [")>>
                                       \o JoinIds(SelectSeq(ids.a,
                                              LAMBDA d : \E r \in s : r.id = d))
                                       \o <<T("]")>>)]),
                {r \in s : \A m \in 1..Len(ids.a) : r.id # ids.a[m]}, n)
       ELSE Raise(DbError, s, n)

deleteManyTodos(arg, s, n, dbOk) ==
    LET ids == Get(arg, "ids")
    IN IF ids.k # "arr" \/ Len(ids.a) = 0
       THEN Raise(Str("Please provide a non-empty array of todo IDs to delete."),
                  s, n)
       ELSE IF dbOk
       THEN Ret(JObj([success |-> JTrue,
                      message |-> JStr(<<T("Deleted todos with ids: [")>>
                                       \o JoinIds(ids.a) \o <<T("]")>>)]),
                {r \in s : \A m \in 1..Len(ids.a) : r.id # ids.a[m]}, n)
       ELSE Raise(DbError, s, n)

deleteAllTodos(arg, s, n, dbOk) ==
    IF dbOk
    THEN Ret(JObj([success |-> JTrue,
                   message |-> Str("All todos deleted successfully.")]), {}, n)
    ELSE Raise(DbError, s, n)

\* the text a value takes inside a template literal or a text column
TextOf(v) == IF v.k = "str" THEN v.s ELSE <<J(v)>>

LowerPiece(p) ==
    IF p.k = "t" /\ p.s = "MILK" THEN T("milk") ELSE p

Lower(s) == [m \in 1..Len(s) |-> LowerPiece(s[m])]

\* text contains pat as a contiguous stretch
Contains(text, pat) ==
    \E from \in 1..(Len(text) + 1) :
        /\ from + Len(pat) - 1 <= Len(text)
        /\ SubSeq(text, from, from + Len(pat) - 1) = pat

searchTodo(arg, s, n, dbOk) ==
    LET search == Get(arg, "search")
    IN IF dbOk
       THEN Ret(RowsOf({r \in s : Contains(Lower(TextOf(r.todo)),
                                           Lower(TextOf(search)))}), s, n)
       ELSE Raise(DbError, s, n)

(***************************************************************************)
(* localTools and executeFunction.                                         *)
(***************************************************************************)
OwnNames == {"getAllTodos", "createTodo", "deleteTodo", "searchTodo",
             "deleteManyTodos", "deleteAllTodos"}

\* what a property read of the object literal also finds: the members it
\* inherits from Object.prototype (three of them, one per way of behaving)
ProtoNames == {"constructor", "toString", "hasOwnProperty"}

\* localTools[key]; "none" stands for undefined
localTools(key) ==
    LET found == {f \in OwnNames \cup ProtoNames : key = <<T(f)>>}
    IN IF found = {} THEN "none" ELSE CHOOSE f \in found : TRUE

\* fn(arg), for the fn that localTools gave
CallTool(fn, arg, s, n, dbOk) ==
    CASE fn = "getAllTodos" -> getAllTodos(arg, s, n, dbOk)
      [] fn = "createTodo" -> createTodo(arg, s, n, dbOk)
      [] fn = "deleteTodo" -> deleteTodo(arg, s, n, dbOk)
      [] fn = "searchTodo" -> searchTodo(arg, s, n, dbOk)
      [] fn = "deleteManyTodos" -> deleteManyTodos(arg, s, n, dbOk)
      [] fn = "deleteAllTodos" -> deleteAllTodos(arg, s, n, dbOk)
      [] fn = "constructor" -> Ret(arg, s, n)
      [] fn = "toString" -> Ret(Str("[object Undefined]"), s, n)
      [] fn = "hasOwnProperty" -> Raise(TypeError, s, n)

\* the name looked up by its first segment
normalizedNameFirst(functionName) == Head(Split(functionName.s, "."))

\* functionName.split(".").pop()
normalizedName(functionName) == Last(Split(functionName.s, "."))

NotFound(functionName) ==
    JStr(<<T("Function ")>> \o TextOf(functionName) \o <<T(" not found")>>)

\* the body of the try block of executeFunction
TryBody(functionName, input, s, n, dbOk) ==
    IF functionName.k # "str" THEN Raise(TypeError, s, n)
    ELSE LET fn == localTools(normalizedName(functionName))
         IN IF fn = "none" THEN Raise(NotFound(functionName), s, n)
            ELSE CallTool(fn,
                          IF input.k \in {"null", "undef"} THEN EmptyObj
                          ELSE input,
                          s, n, dbOk)

\* executeFunction without its catch block
executeFunctionRethrows(functionName, input, s, n, dbOk) ==
    TryBody(functionName, input, s, n, dbOk)

\* executeFunction whose catch block answers with a message of its own
executeFunctionOwnMessage(functionName, input, s, n, dbOk) ==
    LET r == TryBody(functionName, input, s, n, dbOk)
    IN IF r.thrown
       THEN Ret(JObj([error |-> Str("Tool execution failed")]),
                r.store, r.nextId)
       ELSE r

\* executeFunction that refuses a call without an input
executeFunctionNeedsInput(functionName, input, s, n, dbOk) ==
    LET r == TryBody(functionName, input, s, n, dbOk)
    IN IF input.k \in {"null", "undef"}
       THEN Ret(JObj([error |-> Str("input required")]), s, n)
       ELSE IF r.thrown THEN Ret(JObj([error |-> r.v]), r.store, r.nextId)
       ELSE r

executeFunction(functionName, input, s, n, dbOk) ==
    LET r == TryBody(functionName, input, s, n, dbOk)
    IN IF r.thrown THEN Ret(JObj([error |-> r.v]), r.store, r.nextId) ELSE r

(***************************************************************************)
(* processUserInput: its messages, the turns it appends, and what the      *)
(* model may answer.                                                       *)
(***************************************************************************)
maxIterations == 50

None == [k |-> "none"]

Output(v) == JObj([type |-> Str("output"), output |-> v])

MaxIterationsOutput ==
    Output(Str("Reached maximum iterations without final output."))

ErrorOutput == Output(Str("An error occurred while processing your request."))

ProceedMessage == <<T("Proceed to next step.")>>

ObservationMessage(function, observation) ==
    <<T("Here is the observation for ")>> \o TextOf(function)
      \o <<T(":"), J(observation),
           T("Based on this, decide the next step or provide final output.")>>

UserTurn(text) == [role |-> "user", text |-> text]

\* a tool turn under a fixed name instead of the function's
ToolTurnFixedName(function, observation) ==
    [role |-> "tool", name |-> Str("tool"), response |-> observation]

ToolTurn(function, observation) ==
    [role |-> "tool", name |-> function, response |-> observation]

ModelTurn(output) == [role |-> "model", text |-> output]

\* the contents handed to generateContent
Contents ==
    Append(conversationHistory, UserTurn(lastAIMessage))

PlanEnvelope == JObj([type |-> Str("plan"), plan |-> Str("think")])

ActionEnvelope(f, input) ==
    JObj([type |-> Str("action"),
          action |-> JObj([function |-> f, input |-> input])])

ActionWithoutInput(f) ==
    JObj([type |-> Str("action"), action |-> JObj([function |-> f])])

FlatAction ==
    JObj([type |-> Str("action"), function |-> Str("createTodo"),
          input |-> Str("buy milk")])

ObservationEnvelope ==
    JObj([type |-> Str("observation"), observation |-> JNum(2)])

OutputEnvelope == Output(Str("done"))

OutputWithoutText == JObj([type |-> Str("output")])

UnknownEnvelope == JObj([type |-> Str("thought")])

CreateAction ==
    ActionEnvelope(Str("createTodo"), JObj([todo |-> Str("buy milk")]))

\* lines the model may put first in a response
FirstLines ==
    { <<J(PlanEnvelope)>>, <<J(CreateAction)>>,
      <<J(ActionWithoutInput(Str("getAllTodos")))>>,
      <<J(ActionEnvelope(Str("noSuchOp"), EmptyObj))>>,
      <<J(ActionEnvelope(Str("deleteManyTodos"), JObj([ids |-> JArr(<<>>)])))>>,
      <<J(ObservationEnvelope)>>, <<J(OutputEnvelope)>>,
      <<J(OutputWithoutText)>>, <<J(UnknownEnvelope)>>, <<J(FlatAction)>>,
      <<J(JNull)>>, <<T("not json at all")>>, <<>> }

\* lines the model may put after the first
LaterLines == { <<J(PlanEnvelope)>>, <<J(CreateAction)>>, <<J(OutputEnvelope)>> }

\* up to n further lines, each after a line feed
RECURSIVE LaterPart(_, _)
LaterPart(lines, n) ==
    IF n = 0 THEN {<<>>}
    ELSE {<<>>} \cup
         {<<T("LF")>> \o l \o r : l \in lines, r \in LaterPart(lines, n - 1)}

\* a response of blank lines only
BlankResponse == <<T(" "), T("LF"), T(" ")>>

\* text behind an Agent label, not JSON
LabelledText == <<T("Agent:"), T(" "), T("hello")>>

\* a tool call whose input is null
ActionWithNullInput == ActionEnvelope(Str("getAllTodos"), JNull)

\* further texts: blank lines, labelled text alone and before a tool call,
\* a tool call with a null input
ExtraResponses ==
    { BlankResponse, LabelledText,
      LabelledText \o <<T("LF"), J(CreateAction)>>,
      <<J(ActionWithNullInput)>> }

\* the texts the model may answer with: up to MaxLines lines
Responses ==
    {f \o r : f \in FirstLines, r \in LaterPart(LaterLines, MaxLines - 1)}
    \cup ExtraResponses

UserInputs == {<<T("add buy milk")>>}

TypeOf(ai) == Get(ai, "type")

\* the lines of text that ask for a tool
ActionLines(text) ==
    LET ls == NonEmptyLines(text)
    IN Cardinality({m \in 1..Len(ls) :
           LET ai == Decode(ls[m])
           IN ~PropThrows(ai) /\ TypeOf(ai) = Str("action")
              /\ ~PropThrows(Get(ai, "action"))})

ToolTurns ==
    Cardinality({m \in 1..Len(conversationHistory) :
                     conversationHistory[m].role = "tool"})

InitStore == {[id |-> 1, todo |-> Str("call mum")]}

Init ==
    /\ conversationHistory = <<>>
    /\ store = InitStore
    /\ nextId = 2
    /\ pc = "prompt"
    /\ userInput = <<>>
    /\ i = 0
    /\ lastAIMessage = <<>>
    /\ rawText = <<>>
    /\ jsonStrings = <<>>
    /\ idx = 0
    /\ aiResponse = None
    /\ result = None
    /\ modelCalls = 0
    /\ failedCalls = 0
    /\ toolLog = <<>>
    /\ lastExec = None
    /\ turns = 0
    /\ pLine = <<>>
    /\ pDecoded = None
    /\ chat = <<>>
    /\ functionCall = None

(***************************************************************************)
(* main: the question callback starts a turn, or closes on "exit".         *)
(***************************************************************************)
\* a question that is answered while the previous call is still running
AskAnyTime(input) ==
    /\ pc \in {"prompt", "call", "lines"}
    /\ Len(conversationHistory) < MaxHistory
    /\ turns' = turns + 1
    /\ userInput' = input
    /\ conversationHistory' = Append(conversationHistory, UserTurn(input))
    /\ lastAIMessage' = input
    /\ i' = 0
    /\ pc' = "call"
    /\ rawText' = <<>>
    /\ jsonStrings' = <<>>
    /\ idx' = 0
    /\ aiResponse' = None
    /\ result' = None
    /\ modelCalls' = 0
    /\ failedCalls' = 0
    /\ toolLog' = <<>>
    /\ UNCHANGED <<dbVars, lastExec, parseVars,
                   callVars>>

Ask(input) ==
    /\ pc = "prompt"
    /\ Len(conversationHistory) < MaxHistory
    /\ turns' = turns + 1
    /\ userInput' = input
    /\ conversationHistory' = Append(conversationHistory, UserTurn(input))
    /\ lastAIMessage' = input
    /\ i' = 0
    /\ pc' = "call"
    /\ rawText' = <<>>
    /\ jsonStrings' = <<>>
    /\ idx' = 0
    /\ aiResponse' = None
    /\ result' = None
    /\ modelCalls' = 0
    /\ failedCalls' = 0
    /\ toolLog' = <<>>
    /\ UNCHANGED <<dbVars, lastExec, parseVars,
                   callVars>>

Exit ==
    /\ pc = "prompt"
    /\ pc' = "closed"
    /\ UNCHANGED <<conversationHistory, userInput, i, lastAIMessage, rawText,
                   jsonStrings, idx, aiResponse, result, modelCalls, failedCalls, toolLog,
                   turns, dbVars, lastExec, parseVars,
                   callVars>>

\* processUserInput has returned: the callback prints and asks again
Answer ==
    /\ pc = "returned"
    /\ pc' = "prompt"
    /\ UNCHANGED <<conversationHistory, userInput, i, lastAIMessage, rawText,
                   jsonStrings, idx, aiResponse, result, modelCalls, failedCalls, toolLog,
                   turns, dbVars, lastExec, parseVars,
                   callVars>>

(***************************************************************************)
(* One pass of the for loop: the model call ...                            *)
(***************************************************************************)
\* the loop condition off by one
LoopGoesOnOnceMore == i <= maxIterations

LoopGoesOn == i < maxIterations

\* a failed model call that is tried again
ProviderFailsAndRetries ==
    /\ pc = "call"
    /\ LoopGoesOn
    /\ modelCalls' = modelCalls + 1
    /\ failedCalls' = failedCalls + 1
    /\ i' = i + 1
    /\ UNCHANGED <<conversationHistory, userInput, pc, lastAIMessage, rawText,
                   jsonStrings, idx, aiResponse, result, toolLog, turns, dbVars, lastExec,
                   parseVars,
                   callVars>>

\* generateContent rejects: the catch block answers
ProviderFails ==
    /\ pc = "call"
    /\ LoopGoesOn
    /\ modelCalls' = modelCalls + 1
    /\ failedCalls' = failedCalls + 1
    /\ result' = ErrorOutput
    /\ pc' = "returned"
    /\ UNCHANGED <<conversationHistory, userInput, i, lastAIMessage, rawText,
                   jsonStrings, idx, aiResponse, toolLog, turns, dbVars, lastExec,
                   parseVars,
                   callVars>>

\* an empty response that is skipped: on to the next pass
ModelAnswersSkipsEmpty(text) ==
    /\ pc = "call"
    /\ LoopGoesOn
    /\ ToolTurns + ActionLines(text) <= MaxToolCalls
    /\ modelCalls' = modelCalls + 1
    /\ rawText' = text
    /\ jsonStrings' = NonEmptyLines(text)
    /\ result' = result
    /\ IF jsonStrings' = <<>>
       THEN /\ pc' = "call"
            /\ i' = i + 1
            /\ idx' = 0
            /\ aiResponse' = None
       ELSE /\ pc' = "lines"
            /\ i' = i
            /\ idx' = 1
            /\ aiResponse' = Decode(jsonStrings'[1])
    /\ UNCHANGED <<conversationHistory, userInput, lastAIMessage,
                   failedCalls, toolLog, turns, dbVars, lastExec, parseVars,
                   callVars>>

\* generateContent resolves with text; no line in it breaks out of the loop
ModelAnswers(text) ==
    /\ pc = "call"
    /\ LoopGoesOn
    /\ ToolTurns + ActionLines(text) <= MaxToolCalls
    /\ modelCalls' = modelCalls + 1
    /\ rawText' = text
    /\ jsonStrings' = NonEmptyLines(text)
    /\ IF jsonStrings' = <<>>
       THEN /\ result' = MaxIterationsOutput
            /\ pc' = "returned"
            /\ idx' = 0
            /\ aiResponse' = None
       ELSE /\ result' = result
            /\ pc' = "lines"
            /\ idx' = 1
            /\ aiResponse' = Decode(jsonStrings'[1])
    /\ UNCHANGED <<conversationHistory, userInput, i, lastAIMessage,
                   failedCalls, toolLog, turns, dbVars, lastExec, parseVars,
                   callVars>>

\* the end of the loop answered like an error
LoopEndsAsError ==
    /\ pc = "call"
    /\ ~LoopGoesOn
    /\ result' = ErrorOutput
    /\ pc' = "returned"
    /\ UNCHANGED <<conversationHistory, userInput, i, lastAIMessage, rawText,
                   jsonStrings, idx, aiResponse, modelCalls, failedCalls, toolLog, turns,
                   dbVars, lastExec, parseVars,
                   callVars>>

\* the end of the loop never answered
LoopEndsNever ==
    /\ pc = "call"
    /\ ~LoopGoesOn
    /\ UNCHANGED vars

\* the loop condition fails
LoopEnds ==
    /\ pc = "call"
    /\ ~LoopGoesOn
    /\ result' = MaxIterationsOutput
    /\ pc' = "returned"
    /\ UNCHANGED <<conversationHistory, userInput, i, lastAIMessage, rawText,
                   jsonStrings, idx, aiResponse, modelCalls, failedCalls, toolLog, turns,
                   dbVars, lastExec, parseVars,
                   callVars>>

(***************************************************************************)
(* ... and the lines of the response, one step of the for-of loop each.    *)
(***************************************************************************)
\* the break of a case: on to the next line, or to the next pass
NextLine ==
    IF idx < Len(jsonStrings)
    THEN /\ idx' = idx + 1
         /\ aiResponse' = Decode(jsonStrings[idx + 1])
         /\ pc' = "lines"
         /\ i' = i
    ELSE /\ idx' = 0
         /\ aiResponse' = None
         /\ pc' = "call"
         /\ i' = i + 1

\* reading aiResponse.type or aiResponse.action.function throws
\* only the read of aiResponse.type can throw
LineThrowsOnlyOnNull == PropThrows(aiResponse)

LineThrows ==
    \/ PropThrows(aiResponse)
    \/ /\ TypeOf(aiResponse) = Str("action")
       /\ PropThrows(Get(aiResponse, "action"))

HandleThrow ==
    /\ pc = "lines"
    /\ LineThrows
    /\ result' = ErrorOutput
    /\ pc' = "returned"
    /\ UNCHANGED <<conversationHistory, userInput, i, lastAIMessage, rawText,
                   jsonStrings, idx, aiResponse, modelCalls, failedCalls, toolLog, turns,
                   dbVars, lastExec, parseVars,
                   callVars>>

\* a plan that is also kept as a turn of the conversation
HandlePlanRecordsTurn ==
    /\ pc = "lines"
    /\ ~LineThrows
    /\ TypeOf(aiResponse) = Str("plan")
    /\ lastAIMessage' = ProceedMessage
    /\ conversationHistory' =
           Append(conversationHistory, ModelTurn(Get(aiResponse, "plan")))
    /\ NextLine
    /\ UNCHANGED <<userInput, rawText, jsonStrings, result, modelCalls,
                   failedCalls, toolLog, turns, dbVars, lastExec, parseVars,
                   callVars>>

HandlePlan ==
    /\ pc = "lines"
    /\ ~LineThrows
    /\ TypeOf(aiResponse) = Str("plan")
    /\ lastAIMessage' = ProceedMessage
    /\ NextLine
    /\ UNCHANGED <<conversationHistory, userInput, rawText, jsonStrings,
                   result, modelCalls, failedCalls, toolLog, turns, dbVars,
                   lastExec, parseVars,
                   callVars>>

HandleAction(dbOk) ==
    /\ pc = "lines"
    /\ ~LineThrows
    /\ TypeOf(aiResponse) = Str("action")
    /\ LET function == Get(Get(aiResponse, "action"), "function")
           input == Get(Get(aiResponse, "action"), "input")
           body == TryBody(function, input, store, nextId, dbOk)
           r == executeFunction(function, input, store, nextId, dbOk)
           observation == r.v
       IN /\ store' = r.store
          /\ nextId' = r.nextId
          /\ lastExec' = [function |-> function, input |-> input,
                          store |-> store, nextId |-> nextId, dbOk |-> dbOk,
                          body |-> body, thrown |-> r.thrown, v |-> r.v]
          /\ toolLog' = Append(toolLog, [function |-> function,
                                         input |-> input, v |-> r.v])
          /\ IF r.thrown
             THEN \* the await throws: the catch block answers
                  /\ result' = ErrorOutput
                  /\ pc' = "returned"
                  /\ UNCHANGED <<conversationHistory, lastAIMessage, i, idx,
                                 aiResponse>>
             ELSE /\ conversationHistory' =
                         Append(conversationHistory,
                                ToolTurn(function, observation))
                  /\ lastAIMessage' = ObservationMessage(function, observation)
                  /\ result' = result
                  /\ NextLine
    /\ UNCHANGED <<userInput, rawText, jsonStrings, modelCalls,
                   failedCalls, turns, parseVars,
                   callVars>>

\* an output case that breaks out of the switch instead of returning
HandleOutputGoesOn ==
    /\ pc = "lines"
    /\ ~LineThrows
    /\ TypeOf(aiResponse) = Str("output")
    /\ conversationHistory' =
           Append(conversationHistory, ModelTurn(Get(aiResponse, "output")))
    /\ NextLine
    /\ UNCHANGED <<userInput, lastAIMessage, rawText, jsonStrings, result,
                   modelCalls, failedCalls, toolLog, turns, dbVars, lastExec,
                   parseVars,
                   callVars>>

HandleOutput ==
    /\ pc = "lines"
    /\ ~LineThrows
    /\ TypeOf(aiResponse) = Str("output")
    /\ conversationHistory' =
           Append(conversationHistory, ModelTurn(Get(aiResponse, "output")))
    /\ result' = aiResponse
    /\ pc' = "returned"
    /\ UNCHANGED <<userInput, i, lastAIMessage, rawText, jsonStrings, idx, aiResponse,
                   modelCalls, failedCalls, toolLog, turns, dbVars, lastExec,
                   parseVars,
                   callVars>>

\* an unknown type answered with the generic error message
HandleDefaultAsError ==
    /\ pc = "lines"
    /\ ~LineThrows
    /\ TypeOf(aiResponse) \notin {Str("plan"), Str("action"), Str("output")}
    /\ result' = ErrorOutput
    /\ pc' = "returned"
    /\ UNCHANGED <<conversationHistory, userInput, i, lastAIMessage, rawText,
                   jsonStrings, idx, aiResponse, modelCalls, failedCalls, toolLog, turns,
                   dbVars, lastExec, parseVars,
                   callVars>>

HandleDefault ==
    /\ pc = "lines"
    /\ ~LineThrows
    /\ TypeOf(aiResponse) \notin {Str("plan"), Str("action"), Str("output")}
    /\ result' = Output(JStr(rawText))
    /\ pc' = "returned"
    /\ UNCHANGED <<conversationHistory, userInput, i, lastAIMessage, rawText,
                   jsonStrings, idx, aiResponse, modelCalls, failedCalls, toolLog, turns,
                   dbVars, lastExec, parseVars,
                   callVars>>

TurnStep ==
    \/ ProviderFails
    \/ \E text \in Responses : ModelAnswers(text)
    \/ LoopEnds
    \/ HandleThrow
    \/ HandlePlan
    \/ \E dbOk \in BOOLEAN : HandleAction(dbOk)
    \/ HandleOutput
    \/ HandleDefault

Next ==
    \/ \E input \in UserInputs : Ask(input)
    \/ Exit
    \/ Answer
    \/ TurnStep

Spec == Init /\ [][Next]_vars

TypeOK ==
    pc \in {"prompt", "call", "lines", "returned", "closed", "exec", "decode",
            "create", "first", "tool", "report", "final"}

\* The same session with fewer kinds of line, and the promise that a turn is
\* carried on: a pending model call or tool call completes.
FairFirstLines ==
    { <<J(PlanEnvelope)>>, <<J(CreateAction)>>, <<J(OutputEnvelope)>>,
      <<J(ObservationEnvelope)>>, <<J(JNull)>>, <<>> }

FairResponses ==
    {f \o r : f \in FairFirstLines,
               r \in LaterPart({<<J(PlanEnvelope)>>}, MaxLines - 1)}

FairTurnStep ==
    \/ ProviderFails
    \/ \E text \in FairResponses : ModelAnswers(text)
    \/ LoopEnds
    \/ HandleThrow
    \/ HandlePlan
    \/ \E dbOk \in BOOLEAN : HandleAction(dbOk)
    \/ HandleOutput
    \/ HandleDefault

NextFair ==
    \/ \E input \in UserInputs : Ask(input)
    \/ Exit
    \/ Answer
    \/ FairTurnStep

FairSpec == Init /\ [][NextFair]_vars /\ WF_vars(FairTurnStep)

(***************************************************************************)
(* executeFunction on its own: any name, any input, any task store.        *)
(***************************************************************************)
Row1 == [id |-> 1, todo |-> Str("call mum")]

Row2 == [id |-> 2, todo |-> Str("MILK")]

ExecStores == SUBSET {Row1, Row2}

Dotted(prefix, name) == JStr(prefix \o <<T("."), T(name)>>)

ExecNames ==
    {Str(f) : f \in OwnNames \cup ProtoNames}
    \cup {Dotted(<<T("todo")>>, f) : f \in OwnNames}
    \cup {Dotted(<<T("a"), T("."), T("b")>>, f) : f \in OwnNames}
    \cup {Dotted(<<>>, "deleteTodo"), Dotted(<<T("deleteTodo")>>, "v2"),
          Dotted(<<T("deleteTodo")>>, ""), Dotted(<<T("todo")>>, "toString"),
          Str("noSuchOp"), Str(""), JUndef, JNum(5)}

ExecInputs ==
    {JUndef, JNull, EmptyObj, Str("buy milk"),
     JObj([todo |-> Str("buy milk")]),
     JObj([id |-> JNum(1)]), JObj([id |-> JNum(7)]),
     JObj([ids |-> JArr(<<>>)]), JObj([ids |-> JArr(<<1, 2>>)]),
     JObj([ids |-> JArr(<<2, 7>>)]), JObj([ids |-> JNum(1)]),
     JObj([search |-> Str("milk")])}

InitExec ==
    /\ conversationHistory = <<>>
    /\ store \in ExecStores
    /\ nextId = 3
    /\ pc = "exec"
    /\ userInput = <<>>
    /\ i = 0
    /\ lastAIMessage = <<>>
    /\ rawText = <<>>
    /\ jsonStrings = <<>>
    /\ idx = 0
    /\ aiResponse = None
    /\ result = None
    /\ modelCalls = 0
    /\ failedCalls = 0
    /\ toolLog = <<>>
    /\ lastExec = None
    /\ turns = 0
    /\ pLine = <<>>
    /\ pDecoded = None
    /\ chat = <<>>
    /\ functionCall = None

Execute(function, input, dbOk) ==
    /\ pc = "exec"
    /\ lastExec = None
    /\ LET body == TryBody(function, input, store, nextId, dbOk)
           r == executeFunction(function, input, store, nextId, dbOk)
       IN /\ store' = r.store
          /\ nextId' = r.nextId
          /\ lastExec' = [function |-> function, input |-> input,
                          store |-> store, nextId |-> nextId, dbOk |-> dbOk,
                          body |-> body, thrown |-> r.thrown, v |-> r.v]
    /\ UNCHANGED <<loopVars, toolLog, parseVars,
                   callVars>>

NextExec ==
    \E function \in ExecNames, input \in ExecInputs, dbOk \in BOOLEAN :
        Execute(function, input, dbOk)

SpecExec == InitExec /\ [][NextExec]_vars

(***************************************************************************)
(* The decoding of one line on its own: any trimmed, non-empty line.       *)
(***************************************************************************)
FencedText == Output(JStr(<<T("run "), T("FENCE"), T("ls"), T("FENCE")>>))

ParsePieces ==
    {T("FENCEJSON"), T("FENCE"), T("Agent:"), T("agent:"), T(" "), T("hello"),
     J(OutputEnvelope), J(FencedText), J(JNull), J(PlanEnvelope),
     J(CreateAction), J(ObservationEnvelope)}

ParseLines ==
    {l \in UNION {[1..n -> ParsePieces] : n \in 1..MaxPieces} : Trim(l) = l}

InitParse ==
    /\ conversationHistory = <<>>
    /\ store = {}
    /\ nextId = 1
    /\ pc = "decode"
    /\ userInput = <<>>
    /\ i = 0
    /\ lastAIMessage = <<>>
    /\ rawText = <<>>
    /\ jsonStrings = <<>>
    /\ idx = 0
    /\ aiResponse = None
    /\ result = None
    /\ modelCalls = 0
    /\ failedCalls = 0
    /\ toolLog = <<>>
    /\ lastExec = None
    /\ turns = 0
    /\ pLine \in ParseLines
    /\ pDecoded = None
    /\ chat = <<>>
    /\ functionCall = None

DecodeLine ==
    /\ pc = "decode"
    /\ pDecoded = None
    /\ pDecoded' = Decode(pLine)
    /\ UNCHANGED <<loopVars, dbVars, toolLog, lastExec, pLine, callVars>>

NextParse == DecodeLine

SpecParse == InitParse /\ [][NextParse]_vars

(***************************************************************************)
(* The function-call revision (index.js): processUserInput opens a chat,   *)
(* sends the user's message, runs the function the first response calls    *)
(* for, reports its result to the chat and asks for the final response.    *)
(***************************************************************************)
\* turns of the function-call revision in one session
MaxCallTurns == 1

\* the task store operations of index.js take their argument as it comes
chatCreateTodo(todo, s, n, dbOk) ==
    IF dbOk
    THEN LET newTodo == [id |-> n, todo |-> todo]
         IN Ret(JNum(newTodo.id), s \cup {newTodo}, n + 1)
    ELSE Raise(DbError, s, n)

chatDeleteTodo(id, s, n, dbOk) ==
    IF dbOk
    THEN Ret(JObj([success |-> JTrue]), {r \in s : JNum(r.id) # id}, n)
    ELSE Raise(DbError, s, n)

chatSearchTodo(search, s, n, dbOk) ==
    IF dbOk
    THEN Ret(RowsOf({r \in s : Contains(Lower(TextOf(r.todo)),
                                        Lower(TextOf(search)))}), s, n)
    ELSE Raise(DbError, s, n)

ChatOwnNames == {"getAllTodos", "createTodo", "deleteTodo", "searchTodo"}

\* localTools[functionName] of index.js; "none" stands for undefined
chatLocalTools(functionName) ==
    LET found == {f \in ChatOwnNames \cup ProtoNames :
                     functionName = Str(f)}
    IN IF found = {} THEN "none" ELSE CHOOSE f \in found : TRUE

chatCallTool(fn, arg, s, n, dbOk) ==
    CASE fn = "getAllTodos" -> getAllTodos(arg, s, n, dbOk)
      [] fn = "createTodo" -> chatCreateTodo(arg, s, n, dbOk)
      [] fn = "deleteTodo" -> chatDeleteTodo(arg, s, n, dbOk)
      [] fn = "searchTodo" -> chatSearchTodo(arg, s, n, dbOk)
      [] OTHER -> CallTool(fn, arg, s, n, dbOk)

\* executeFunction of index.js: the name is looked up as it is
chatExecuteFunction(functionName, input, s, n, dbOk) ==
    LET fn == chatLocalTools(functionName)
        r == IF fn = "none" THEN Raise(NotFound(functionName), s, n)
             ELSE chatCallTool(fn,
                               IF input.k \in {"null", "undef"} THEN EmptyObj
                               ELSE input,
                               s, n, dbOk)
    IN IF r.thrown THEN Ret(JObj([error |-> r.v]), r.store, r.nextId) ELSE r

\* a value that counts as false in a condition
Falsy(v) == v.k \in {"undef", "null", "none"}

\* the first function call of the response, in either shape, or null
FunctionCallOf(resp) ==
    IF ~Falsy(Get(resp, "functionCalls")) THEN Get(resp, "functionCalls")
    ELSE IF ~Falsy(Get(resp, "function_call")) THEN Get(resp, "function_call")
    ELSE JNull

\* the arguments are never decoded
DecodeArgsKeepsString(given) ==
    IF given.k \in {"undef", "null"} THEN EmptyObj ELSE given

\* functionCall.args ?? {}, decoded when it is a string that is JSON
DecodeArgs(given) ==
    LET args == IF given.k \in {"undef", "null"} THEN EmptyObj ELSE given
    IN IF args.k = "str" /\ Parses(Trim(args.s)) THEN Trim(args.s)[1].v
       ELSE args

\* resp.parsed ?? resp.text ?? resp.response?.text?.()
TextOfResponse(resp) ==
    IF ~PropThrows(Get(resp, "parsed")) THEN Get(resp, "parsed")
    ELSE IF ~PropThrows(Get(resp, "text")) THEN Get(resp, "text")
    ELSE Get(resp, "responseText")

CallErrorOutput ==
    Output(Str("I apologize, but I encountered an error processing your request."))

\* an argument of chat.sendMessage
Message(role, name, content) ==
    [role |-> role, name |-> name, content |-> content]

UserMessage(content) == Message("none", JUndef, content)

ToolMessage(funcName, toolResult) == Message("tool", funcName, <<J(toolResult)>>)

ContinueMessage ==
    UserMessage(<<T("Please continue and provide the final response.")>>)

\* what the model may call for
CallNames ==
    {Str("getAllTodos"), Str("createTodo"), Str("deleteTodo"),
     Str("searchTodo"), Str("noSuchOp"), Str("toString"), JUndef}

CallArgs ==
    {JUndef, JNull, JNum(1), Str("buy milk"),
     JObj([todo |-> Str("buy milk")]),
     JStr(<<J(JObj([todo |-> Str("buy milk")]))>>),
     JStr(<<T(" "), J(JNum(1)), T("LF")>>),
     JStr(<<J(JNull)>>)}

FunctionCalls == {JObj([name |-> f, args |-> a]) : f \in CallNames, a \in CallArgs}

\* what sendMessage may resolve with
PlainResponses ==
    {JUndef, EmptyObj, JObj([text |-> Str("done")]),
     JObj([parsed |-> OutputEnvelope, text |-> Str("done")]),
     JObj([responseText |-> Str("done")])}

InitialResponses ==
    PlainResponses
    \cup {JObj([functionCalls |-> fc]) : fc \in FunctionCalls}
    \cup {JObj([function_call |->
                   JObj([name |-> Str("deleteTodo"), args |-> JNum(1)]),
                text |-> Str("done")])}

InitCall ==
    /\ conversationHistory = <<>>
    /\ store = {Row1, Row2}
    /\ nextId = 3
    /\ pc = "prompt"
    /\ userInput = <<>>
    /\ i = 0
    /\ lastAIMessage = <<>>
    /\ rawText = <<>>
    /\ jsonStrings = <<>>
    /\ idx = 0
    /\ aiResponse = None
    /\ result = None
    /\ modelCalls = 0
    /\ failedCalls = 0
    /\ toolLog = <<>>
    /\ lastExec = None
    /\ turns = 0
    /\ pLine = <<>>
    /\ pDecoded = None
    /\ chat = <<>>
    /\ functionCall = None

callFrame == <<conversationHistory, i, lastAIMessage, rawText, jsonStrings,
               idx, aiResponse, modelCalls, failedCalls, lastExec, parseVars>>

\* the question callback calls processUserInput
CallAsk(input) ==
    /\ pc = "prompt"
    /\ turns < MaxCallTurns
    /\ turns' = turns + 1
    /\ userInput' = input
    /\ pc' = "create"
    /\ chat' = <<>>
    /\ functionCall' = None
    /\ toolLog' = <<>>
    /\ result' = None
    /\ UNCHANGED <<callFrame, dbVars>>

\* an await of the try block rejects: the catch block answers
CallCatch ==
    /\ result' = CallErrorOutput
    /\ pc' = "returned"

ChatCreateFails ==
    /\ pc = "create"
    /\ CallCatch
    /\ UNCHANGED <<callFrame, dbVars, userInput, turns, toolLog, callVars>>

ChatCreate ==
    /\ pc = "create"
    /\ pc' = "first"
    /\ UNCHANGED <<callFrame, dbVars, userInput, turns, toolLog, result,
                   callVars>>

SendFirstFails ==
    /\ pc = "first"
    /\ chat' = Append(chat, UserMessage(userInput))
    /\ CallCatch
    /\ UNCHANGED <<callFrame, dbVars, userInput, turns, toolLog,
                   functionCall>>

\* the first response: without a function call it is the answer
SendFirst(initialResp) ==
    /\ pc = "first"
    /\ chat' = Append(chat, UserMessage(userInput))
    /\ IF PropThrows(initialResp)
       THEN /\ CallCatch
            /\ functionCall' = functionCall
       ELSE /\ functionCall' = FunctionCallOf(initialResp)
            /\ IF Falsy(functionCall')
               THEN /\ result' = Output(TextOfResponse(initialResp))
                    /\ pc' = "returned"
               ELSE /\ result' = result
                    /\ pc' = "tool"
    /\ UNCHANGED <<callFrame, dbVars, userInput, turns, toolLog>>

\* the tool the function call names is executed
ExecuteTool(dbOk) ==
    /\ pc = "tool"
    /\ LET funcName == Get(functionCall, "name")
           args == DecodeArgs(Get(functionCall, "args"))
           toolResult == chatExecuteFunction(funcName, args, store, nextId,
                                             dbOk)
       IN /\ store' = toolResult.store
          /\ nextId' = toolResult.nextId
          /\ toolLog' = Append(toolLog, [function |-> funcName,
                                         input |-> args, v |-> toolResult.v])
    /\ pc' = "report"
    /\ UNCHANGED <<callFrame, userInput, turns, result, callVars>>

ReportToolFails ==
    /\ pc = "report"
    /\ chat' = Append(chat, ToolMessage(Get(functionCall, "name"),
                                        Last(toolLog).v))
    /\ CallCatch
    /\ UNCHANGED <<callFrame, dbVars, userInput, turns, toolLog,
                   functionCall>>

\* the observation goes back to the chat
ReportTool ==
    /\ pc = "report"
    /\ chat' = Append(chat, ToolMessage(Get(functionCall, "name"),
                                        Last(toolLog).v))
    /\ pc' = "final"
    /\ UNCHANGED <<callFrame, dbVars, userInput, turns, toolLog, result,
                   functionCall>>

SendFinalFails ==
    /\ pc = "final"
    /\ chat' = Append(chat, ContinueMessage)
    /\ CallCatch
    /\ UNCHANGED <<callFrame, dbVars, userInput, turns, toolLog,
                   functionCall>>

\* the final response is the answer
SendFinal(finalResp) ==
    /\ pc = "final"
    /\ chat' = Append(chat, ContinueMessage)
    /\ IF PropThrows(finalResp)
       THEN CallCatch
       ELSE /\ result' = Output(TextOfResponse(finalResp))
            /\ pc' = "returned"
    /\ UNCHANGED <<callFrame, dbVars, userInput, turns, toolLog,
                   functionCall>>

\* processUserInput has returned: the callback prints and asks again
CallAnswer ==
    /\ pc = "returned"
    /\ pc' = "prompt"
    /\ UNCHANGED <<callFrame, dbVars, userInput, turns, toolLog, result,
                   callVars>>

NextCall ==
    \/ \E input \in UserInputs : CallAsk(input)
    \/ ChatCreateFails
    \/ ChatCreate
    \/ SendFirstFails
    \/ \E initialResp \in InitialResponses : SendFirst(initialResp)
    \/ \E dbOk \in BOOLEAN : ExecuteTool(dbOk)
    \/ ReportToolFails
    \/ ReportTool
    \/ SendFinalFails
    \/ \E finalResp \in PlainResponses : SendFinal(finalResp)
    \/ CallAnswer

SpecCall == InitCall /\ [][NextCall]_vars

(***************************************************************************)
(* Properties.                                                             *)
(***************************************************************************)

\* C1: within one call of processUserInput the number of generateContent
\* calls never exceeds maxIterations, whatever the model answers.
C1_ModelCallsBounded == modelCalls <= maxIterations

\* a turn that made its last allowed model call
C1_Witness == modelCalls = maxIterations /\ pc = "lines"

\* C2: a turn whose maxIterations passes all ran to their end without ending
\* the turn returns the fixed maximum-iterations output (it does not raise),
\* and that output differs from the one returned for a provider error.
C2_CapReachedOutput ==
    (pc = "returned" /\ i = maxIterations) =>
        /\ result = Output(Str("Reached maximum iterations without final output."))
        /\ result # ErrorOutput
        /\ failedCalls = 0

C2_Witness ==
    pc = "returned" /\ i = maxIterations /\ modelCalls = maxIterations

\* C3: every call of processUserInput returns, provided every pending model
\* call and tool call completes; plan envelopes forever cannot keep it going.
C3_TurnCompletes == (pc \in {"call", "lines"}) ~> (pc = "returned")

\* a turn in its last pass that has seen nothing but plans (no tool turn, no
\* model turn)
C3_Witness ==
    /\ pc = "lines"
    /\ i = maxIterations - 1
    /\ lastAIMessage = ProceedMessage
    /\ Len(conversationHistory) = 1

\* C4 (as claimed): whatever ends the turn, processUserInput returns an
\* object of type "output" whose output field is a text string.
C4_AlwaysTextOutput ==
    (pc = "returned") =>
        /\ result.k = "obj"
        /\ TypeOf(result) = Str("output")
        /\ IsString(Get(result, "output"))

\* C5: a failed model call ends the turn at once with the generic failure
\* output; until the next turn starts no model call and no tool call follows.
C5_ProviderErrorEndsTurn ==
    [][ /\ (failedCalls' > failedCalls) =>
               (pc' = "returned" /\ result' = ErrorOutput /\ toolLog' = toolLog)
        /\ (failedCalls > 0 /\ turns' = turns) =>
               (modelCalls' = modelCalls /\ toolLog' = toolLog
                /\ result' = result /\ failedCalls' = failedCalls) ]_vars

\* a model call failed after earlier passes and a tool call
C5_Witness ==
    /\ failedCalls = 1
    /\ pc = "returned"
    /\ modelCalls > 1
    /\ toolLog # <<>>

\* C6: executeFunction never throws; when the operation (or the lookup)
\* raises, it returns {error: message} with the message of the cause.
C6_ExecuteNeverThrows ==
    (lastExec # None) =>
        /\ ~lastExec.thrown
        /\ lastExec.body.thrown =>
               lastExec.v = JObj([error |-> lastExec.body.v])
        /\ (~lastExec.dbOk /\ lastExec.function = Str("getAllTodos")) =>
               lastExec.v = JObj([error |-> DbError])

\* the database refused a registered operation
C6_Witness ==
    /\ lastExec # None
    /\ lastExec.body.thrown
    /\ lastExec.body.v = DbError
    /\ lastExec.function = Str("deleteAllTodos")

\* C7: when the tool of an action envelope fails, the error data becomes the
\* tool turn of that action and the loop goes on as after a success: on to
\* the next line, or to the next model call.
C7_ToolFailureFedBack ==
    [][ (pc = "lines" /\ toolLog' # toolLog /\ lastExec'.body.thrown) =>
            /\ conversationHistory' =
                   Append(conversationHistory,
                          ToolTurn(lastExec'.function,
                                   JObj([error |-> lastExec'.body.v])))
            /\ result' = result
            /\ (idx < Len(jsonStrings)) =>
                   (pc' = "lines" /\ idx' = idx + 1 /\ i' = i)
            /\ (idx = Len(jsonStrings)) => (pc' = "call" /\ i' = i + 1) ]_vars

\* an unknown operation was asked for, and the next model call is awaited
C7_Witness ==
    /\ pc = "call"
    /\ conversationHistory # <<>>
    /\ Last(conversationHistory) =
           ToolTurn(Str("noSuchOp"),
                    JObj([error |-> NotFound(Str("noSuchOp"))]))

\* the final dot-separated segment of a name
FinalSegment(name) == Last(Split(name.s, "."))

\* C8 (as claimed): a name whose final segment is not one of the six
\* registered operations gets the not-found error, nothing is invoked and
\* the task store is unchanged.
C8_UnknownNameRejected ==
    (/\ lastExec # None
     /\ lastExec.function.k = "str"
     /\ FinalSegment(lastExec.function) \notin {<<T(f)>> : f \in OwnNames}) =>
        /\ ~lastExec.thrown
        /\ lastExec.v = JObj([error |-> NotFound(lastExec.function)])
        /\ store = lastExec.store
        /\ nextId = lastExec.nextId

\* C9: a registered name behind any dotted prefix resolves to the same
\* function as the bare name: same value returned, same effect on the store.
C9_PrefixStripped ==
    (/\ lastExec # None
     /\ lastExec.function.k = "str"
     /\ Len(Split(lastExec.function.s, ".")) > 1
     /\ FinalSegment(lastExec.function) \in {<<T(f)>> : f \in OwnNames}) =>
        LET bare == executeFunction(JStr(FinalSegment(lastExec.function)),
                                    lastExec.input, lastExec.store,
                                    lastExec.nextId, lastExec.dbOk)
        IN /\ lastExec.v = bare.v
           /\ store = bare.store
           /\ nextId = bare.nextId
           /\ lastExec.thrown = bare.thrown
           /\ ~lastExec.body.thrown =>
                  lastExec.v # JObj([error |-> NotFound(lastExec.function)])

\* todo.deleteTodo deleted row 1
C9_Witness ==
    /\ lastExec # None
    /\ lastExec.function = Dotted(<<T("todo")>>, "deleteTodo")
    /\ lastExec.input = JObj([id |-> JNum(1)])
    /\ Row1 \in lastExec.store
    /\ Row1 \notin store
    /\ Get(lastExec.v, "success") = JTrue

\* C10 (as claimed): a line that does not decode as JSON becomes an
\* unrecognized (output) envelope holding the line as the model wrote it.
C10_OriginalTextKept ==
    (pDecoded # None /\ ~Parses(Clean(pLine))) =>
        pDecoded = Output(JStr(pLine))

\* C11 (as claimed): when the first line of the first response of a turn does
\* not decode as JSON, handling that line ends the turn: the line's text is
\* returned as the output, after exactly one model call and with no tool
\* invoked.
C11_UndecodableFirstLine ==
    [][ (/\ pc = "lines" /\ i = 0 /\ idx = 1
         /\ ~Parses(Clean(jsonStrings[1]))) =>
            /\ pc' = "returned"
            /\ result' = Output(JStr(jsonStrings[1]))
            /\ modelCalls' = 1
            /\ toolLog' = <<>>
            /\ store' = store ]_vars

\* the types of envelope the protocol names
KnownTypes == {Str("plan"), Str("action"), Str("observation"), Str("output")}

\* C12 (as claimed): a line that is one well-formed JSON envelope of a known
\* type decodes to that envelope: same type, same fields.
C12_EnvelopePreserved ==
    (/\ pDecoded # None
     /\ Len(pLine) = 1
     /\ pLine[1].k = "j"
     /\ TypeOf(pLine[1].v) \in KnownTypes) =>
        /\ pDecoded = pLine[1].v
        /\ TypeOf(pDecoded) = TypeOf(pLine[1].v)

\* C13: the conversation history only grows at its end, one turn at a time;
\* a tool turn is appended in the very step that invoked the tool, it names
\* the function of that action and holds what the call returned.
C13_HistoryAppendOnly ==
    [][ /\ Len(conversationHistory') \in
               {Len(conversationHistory), Len(conversationHistory) + 1}
        /\ SubSeq(conversationHistory', 1, Len(conversationHistory)) =
               conversationHistory
        /\ (pc = "lines" /\ toolLog' # toolLog /\ pc' # "returned") =>
               conversationHistory' =
                   Append(conversationHistory,
                          [role |-> "tool",
                           name |-> Get(Get(aiResponse, "action"), "function"),
                           response |-> Last(toolLog').v])
        /\ (/\ Len(conversationHistory') > Len(conversationHistory)
            /\ Last(conversationHistory').role = "tool") =>
               /\ pc = "lines"
               /\ TypeOf(aiResponse) = Str("action")
               /\ Len(toolLog') = Len(toolLog) + 1
               /\ Last(conversationHistory').name = Last(toolLog').function
           ]_vars

\* a tool turn between the user turn and the model turn of one turn
C13_Witness ==
    /\ Len(conversationHistory) = 3
    /\ conversationHistory[1].role = "user"
    /\ conversationHistory[2].role = "tool"
    /\ conversationHistory[2].name = Str("createTodo")
    /\ conversationHistory[3].role = "model"

\* where the turns of the turn in progress start: the last user turn
TurnStart ==
    CHOOSE m \in 1..Len(conversationHistory) :
        /\ conversationHistory[m].role = "user"
        /\ \A n \in (m + 1)..Len(conversationHistory) :
               conversationHistory[n].role # "user"

C15_TerminalLineEndsTurn ==
    [][ /\ (pc = "call" /\ pc' = "lines") => idx' = 1
        /\ (pc = "lines" /\ pc' = "lines") =>
               (idx' = idx + 1 /\ i' = i /\ jsonStrings' = jsonStrings)
        /\ (/\ pc = "lines" /\ ~LineThrows
            /\ TypeOf(aiResponse) \notin {Str("plan"), Str("action")}) =>
               (pc' = "returned" /\ idx' = idx /\ toolLog' = toolLog
                /\ store' = store)
        /\ (pc = "returned") =>
               (pc' = "prompt" /\ toolLog' = toolLog /\ store' = store
                /\ conversationHistory' = conversationHistory) ]_vars

\* an output line came first, a tool call line after it: no tool was invoked
C15_Witness ==
    /\ pc = "returned"
    /\ idx = 1
    /\ Len(jsonStrings) = 2
    /\ jsonStrings[1] = <<J(OutputEnvelope)>>
    /\ jsonStrings[2] = <<J(CreateAction)>>
    /\ toolLog = <<>>
    /\ store = InitStore

\* C16: a response without a non-empty line ends the turn through the
\* fallback after the loop: the maximum-iterations output is returned, no
\* model call follows and no tool is invoked.
C16_EmptyResponseEndsTurn ==
    [][ /\ (/\ pc = "call" /\ modelCalls' = modelCalls + 1
            /\ failedCalls' = failedCalls
            /\ NonEmptyLines(rawText') = <<>>) =>
               /\ pc' = "returned"
               /\ result' = Output(Str("Reached maximum iterations without final output."))
               /\ toolLog' = toolLog
               /\ store' = store
               /\ conversationHistory' = conversationHistory
        /\ (pc = "returned" /\ turns' = turns) =>
               (modelCalls' = modelCalls /\ toolLog' = toolLog) ]_vars

\* blank lines came back in a later pass of a turn that had called a tool
C16_Witness ==
    /\ pc = "returned"
    /\ rawText = BlankResponse
    /\ i = 1
    /\ modelCalls = 2
    /\ Len(toolLog) = 1
    /\ result = MaxIterationsOutput

\* the numbers a message names, in their order
IdsNamed(message) ==
    LET named == SelectSeq(message.s, LAMBDA p : p.k = "j")
    IN [m \in 1..Len(named) |-> named[m].v]

\* C17: deleteManyTodos with an empty list, or with no list, fails with the
\* invalid-argument error and deletes nothing; with a non-empty list (and
\* the database answering) it succeeds, removes exactly the rows whose id is
\* in the list and its message names exactly the ids asked for, found or not.
C17_DeleteMany ==
    (/\ lastExec # None
     /\ lastExec.function.k = "str"
     /\ FinalSegment(lastExec.function) = <<T("deleteManyTodos")>>) =>
        LET given == IF lastExec.input.k \in {"null", "undef"} THEN EmptyObj
                     ELSE lastExec.input
            ids == Get(given, "ids")
        IN IF ids.k # "arr" \/ ids.a = <<>>
           THEN /\ lastExec.body.thrown
                /\ lastExec.body.v # DbError
                /\ Get(lastExec.v, "error") = lastExec.body.v
                /\ store = lastExec.store
           ELSE lastExec.dbOk =>
                /\ ~lastExec.body.thrown
                /\ Get(lastExec.v, "success") = JTrue
                /\ store = {r \in lastExec.store :
                                r.id \notin {ids.a[m] : m \in 1..Len(ids.a)}}
                /\ IdsNamed(Get(lastExec.v, "message")) =
                       [m \in 1..Len(ids.a) |-> JNum(ids.a[m])]

\* ids 2 and 7 were asked for, only row 2 existed: it is gone, both are named
C17_Witness ==
    /\ lastExec # None
    /\ lastExec.function = Str("deleteManyTodos")
    /\ lastExec.input = JObj([ids |-> JArr(<<2, 7>>)])
    /\ lastExec.dbOk
    /\ lastExec.store = {Row1, Row2}
    /\ store = {Row1}
    /\ IdsNamed(Get(lastExec.v, "message")) = <<JNum(2), JNum(7)>>

\* C18: the turns of the interactive session run one after another: a call
\* of processUserInput starts only at the prompt, when no call is running,
\* and opens its segment of the history with its user turn; while a call
\* runs no other call starts, and everything the history gains belongs to
\* the running call and is not a user turn.
C18_TurnsInSequence ==
    [][ /\ (turns' # turns =>
               /\ pc = "prompt"
               /\ pc' = "call"
               /\ turns' = turns + 1
               /\ conversationHistory' =
                      Append(conversationHistory, UserTurn(userInput')))
        /\ (pc \in {"call", "lines"} =>
               /\ turns' = turns
               /\ userInput' = userInput)
        /\ ((turns' = turns /\ conversationHistory' # conversationHistory) =>
               /\ pc \in {"call", "lines"}
               /\ Len(conversationHistory') = Len(conversationHistory) + 1
               /\ SubSeq(conversationHistory', 1, Len(conversationHistory))
                      = conversationHistory
               /\ Last(conversationHistory').role # "user"
               /\ TurnStart' = TurnStart)
      ]_vars

\* the second turn has run to its answer after the first one returned
C18_Witness ==
    /\ turns = 2
    /\ pc = "returned"
    /\ Len(conversationHistory) = 3
    /\ conversationHistory[1].role = "user"
    /\ conversationHistory[2].role = "user"
    /\ conversationHistory[3].role = "model"

\* C19: an observation envelope of the model is informational only: handling
\* it calls no tool and appends nothing to the history, it does not end the
\* turn, and the lines after it in the same response are handled next.
C19_ObservationInformational ==
    [][ (/\ pc = "lines"
         /\ ~LineThrows
         /\ TypeOf(aiResponse) = Str("observation")) =>
            /\ toolLog' = toolLog
            /\ store' = store
            /\ conversationHistory' = conversationHistory
            /\ pc' # "returned"
            /\ (idx < Len(jsonStrings) =>
                   /\ pc' = "lines"
                   /\ idx' = idx + 1
                   /\ jsonStrings' = jsonStrings)
      ]_vars

\* C20: when a pass of the loop has executed an action, the message of the
\* next model call is the templated message with the serialized result of
\* the last action executed, whatever other lines the response had.
C20_MessageAfterAction ==
    [][ (/\ pc = "lines"
         /\ pc' = "call"
         /\ \E m \in 1..idx :
                TypeOf(Decode(jsonStrings[m])) = Str("action")) =>
            /\ toolLog' # <<>>
            /\ lastAIMessage' = ObservationMessage(Last(toolLog').function,
                                                   Last(toolLog').v)
      ]_vars

\* C21: an output envelope that ends a turn comes from a model call made
\* after every tool result of the turn was appended to the history: no line
\* before it in the same response is an action that was executed.
C21_OutputAfterObservations ==
    [][ (/\ pc = "lines"
         /\ ~LineThrows
         /\ TypeOf(aiResponse) = Str("output")
         /\ pc' = "returned") =>
            \A m \in 1..(idx - 1) :
                TypeOf(Decode(jsonStrings[m])) # Str("action")
      ]_vars

\* C22: a turn that ends on a line that does not decode returns that text
\* (the response, the line, or the line cleaned) as the output and appends
\* nothing to the history; only a decoded output envelope appends a model
\* turn.
C22_UndecodableLeavesHistory ==
    [][ (/\ pc = "lines"
         /\ ~Parses(Clean(jsonStrings[idx]))) =>
            /\ pc' = "returned"
            /\ result' \in {Output(JStr(rawText)),
                            Output(JStr(jsonStrings[idx])),
                            Output(JStr(Clean(jsonStrings[idx])))}
            /\ conversationHistory' = conversationHistory
      ]_vars

\* C23: a decoded envelope whose type is none of the known types ends the
\* turn at once with the raw response text as the output, not the generic
\* error message: the history stays as it is, no tool runs for the lines
\* after it, and no further model call is made in the turn.
C23_UnknownTypeEndsTurn ==
    [][ /\ (/\ pc = "lines"
            /\ ~LineThrows
            /\ TypeOf(aiResponse) \notin KnownTypes) =>
               /\ pc' = "returned"
               /\ result' = Output(JStr(rawText))
               /\ result' # ErrorOutput
               /\ conversationHistory' = conversationHistory
               /\ toolLog' = toolLog
               /\ store' = store
               /\ modelCalls' = modelCalls
        /\ (pc = "returned" /\ turns' = turns) =>
               /\ modelCalls' = modelCalls
               /\ toolLog' = toolLog
               /\ conversationHistory' = conversationHistory
      ]_vars

\* an unknown envelope ended the turn although a tool call came after it
C23_Witness ==
    /\ pc = "returned"
    /\ idx = 1
    /\ jsonStrings = <<<<J(UnknownEnvelope)>>, <<J(CreateAction)>>>>
    /\ result = Output(JStr(rawText))
    /\ toolLog = <<>>
    /\ modelCalls = 1
    /\ Len(conversationHistory) = 1

\* C24: a line that does not decode to a JSON object with a type, be it
\* malformed or a JSON value that is no object (null, a number, a string,
\* an array), is recovered as best-effort output: the turn does not end
\* with the generic error message because of it.
C24_NonObjectRecovered ==
    [][ (/\ pc = "lines"
         /\ \/ ~Parses(Clean(jsonStrings[idx]))
            \/ aiResponse.k # "obj"
            \/ TypeOf(aiResponse) = JUndef) =>
            /\ pc' = "returned"
            /\ result' # ErrorOutput
      ]_vars

\* C25: an action envelope whose input is absent or null is handled like
\* any other: the operation it names is invoked once, with an empty object
\* as its input, the result is appended as a tool turn, and the turn goes
\* on with the next line or the next model call.
C25_MissingInputIsEmpty ==
    [][ (/\ pc = "lines"
         /\ ~LineThrows
         /\ TypeOf(aiResponse) = Str("action")
         /\ Get(Get(aiResponse, "action"), "input").k \in {"undef", "null"}
         /\ Get(Get(aiResponse, "action"), "function").k = "str"
         /\ localTools(normalizedName(
                Get(Get(aiResponse, "action"), "function"))) \in OwnNames) =>
            LET function == Get(Get(aiResponse, "action"), "function")
                called == CallTool(localTools(normalizedName(function)),
                                   EmptyObj, store, nextId, lastExec'.dbOk)
                observation == IF called.thrown
                               THEN JObj([error |-> called.v])
                               ELSE called.v
            IN /\ Len(toolLog') = Len(toolLog) + 1
               /\ Last(toolLog').function = function
               /\ Last(toolLog').v = observation
               /\ store' = called.store
               /\ conversationHistory' =
                      Append(conversationHistory,
                             [role |-> "tool", name |-> function,
                              response |-> observation])
               /\ pc' \in {"lines", "call"}
               /\ result' = result
      ]_vars

\* getAllTodos was asked for with a null input and answered with the rows
C25_Witness ==
    /\ pc = "call"
    /\ Len(toolLog) = 1
    /\ toolLog[1].function = Str("getAllTodos")
    /\ toolLog[1].input = JNull
    /\ toolLog[1].v = RowsOf(InitStore)
    /\ Last(conversationHistory) =
           [role |-> "tool", name |-> Str("getAllTodos"),
            response |-> RowsOf(InitStore)]

\* C26: createTodo dispatched with the input {todo: t}, t a non-empty
\* string, adds exactly one row whose text is t itself (not the input
\* object) and whose id is none of the existing ids, and returns that row
\* with its id.
C26_CreateStoresText ==
    (/\ lastExec # None
     /\ lastExec.function.k = "str"
     /\ FinalSegment(lastExec.function) = <<T("createTodo")>>
     /\ lastExec.input.k = "obj"
     /\ Get(lastExec.input, "todo").k = "str"
     /\ Get(lastExec.input, "todo").s # <<>>
     /\ lastExec.dbOk) =>
        \E row \in store :
            /\ store = lastExec.store \cup {row}
            /\ row \notin lastExec.store
            /\ \A old \in lastExec.store : old.id # row.id
            /\ row.todo = Get(lastExec.input, "todo")
            /\ Get(lastExec.v, "id") = JNum(row.id)

C28_InputSentOnce ==
    (pc = "call" /\ turns > 0 /\ modelCalls = 0 /\ i = 0) =>
        Cardinality({m \in 1..Len(Contents) :
                        /\ Contents[m].role = "user"
                        /\ Contents[m].text = userInput
                        /\ m >= TurnStart}) = 1

\* C29: in the function-call revision a turn invokes at most one tool, and
\* only when the first response carried a function call; arguments given as
\* a string of JSON are decoded before the tool is invoked, and stay the
\* string when they do not decode; the tool result is sent to the chat
\* right before the final response is asked for; and what the turn returns
\* is an output.
C29_FunctionCallTurn ==
    /\ Len(toolLog) <= 1
    /\ (pc \in {"tool", "report", "final"} \/ toolLog # <<>>) =>
           /\ functionCall.k = "obj"
           /\ chat # <<>>
           /\ chat[1] = UserMessage(userInput)
    /\ toolLog # <<>> =>
           LET given == Get(functionCall, "args")
               text == IF given.k = "str" THEN Trim(given.s) ELSE <<>>
           IN /\ toolLog[1].function = Get(functionCall, "name")
              /\ toolLog[1].input =
                     IF given.k \in {"undef", "null"} THEN EmptyObj
                     ELSE IF given.k # "str" THEN given
                     ELSE IF Len(text) = 1 /\ text[1].k = "j" THEN text[1].v
                     ELSE given
    /\ \A m \in 1..Len(chat) :
           chat[m] = ContinueMessage =>
               /\ m = 3
               /\ toolLog # <<>>
               /\ chat[m - 1].role = "tool"
               /\ chat[m - 1].name = toolLog[1].function
               /\ chat[m - 1].content = <<J(toolLog[1].v)>>
    /\ pc = "returned" =>
           /\ result.k = "obj"
           /\ TypeOf(result) = Str("output")

\* createTodo was called for with its arguments as a string of JSON: it ran
\* on the decoded object, its result went to the chat, the answer came after
C29_Witness ==
    /\ pc = "returned"
    /\ Get(functionCall, "name") = Str("createTodo")
    /\ Get(functionCall, "args") = JStr(<<J(JObj([todo |-> Str("buy milk")]))>>)
    /\ Len(toolLog) = 1
    /\ toolLog[1].input = JObj([todo |-> Str("buy milk")])
    /\ toolLog[1].v = JNum(3)
    /\ chat = <<UserMessage(userInput),
                ToolMessage(Str("createTodo"), JNum(3)), ContinueMessage>>
    /\ result = Output(Str("done"))

====
